---- MODULE Spec2Model ----
(***************************************************************************)
(* Model of process_video (src/main.py): the per-frame orchestration loop  *)
(* of the emotion-detection script and its JSON log.  One action per       *)
(* statement (or group of statements without an observable effect between  *)
(* them); the external collaborators (decoder, face detector, emotion      *)
(* classifier, polar visualizer, composer) are nondeterministic: they      *)
(* either return or raise.  An uncaught exception ends the function in     *)
(* the state it was raised in (pc = "raised").                             *)
(***************************************************************************)
EXTENDS Integers, Sequences, FiniteSets, TLC

\* ------------------------------------------------------------------ bounds
MaxFrames == 2      \* frames in the video: 0..MaxFrames
MaxPersons == 2     \* faces the classifier reports in one frame: 0..MaxPersons

\* ------------------------------------------------------- program constants
OrdQ == 113         \* ord("q")

\* -------------------------------------------------------------- input data
\* EmotionVector values (label -> probability, in percent).
EmotionVectors == {[happy |-> 100, sad |-> 0], [happy |-> 25, sad |-> 75]}

\* What emotion.labelEmotion can return for one frame: a mapping from the
\* person indices 0..n-1 to vectors, as the sequence of its values in
\* items() order (element i+1 belongs to person_idx i); <<>> is the empty dict.
RECURSIVE SeqsOfLen(_)
SeqsOfLen(n) ==
    IF n = 0 THEN {<<>>}
    ELSE {Append(s, v) : s \in SeqsOfLen(n - 1), v \in EmotionVectors}

Detections == UNION {SeqsOfLen(n) : n \in 0..MaxPersons}

\* Return values of cv2.waitKey(1): -1 (no key), "Q", "q", "a", and "q" with
\* modifier bits above the low byte.
KeyCodes == {-1, 81, 113, 97, 1048689}

\* ------------------------------------------------------------ pure helpers
Digit(d) ==
    CASE d = 0 -> "0" [] d = 1 -> "1" [] d = 2 -> "2" [] d = 3 -> "3"
      [] d = 4 -> "4" [] d = 5 -> "5" [] d = 6 -> "6" [] d = 7 -> "7"
      [] d = 8 -> "8" [] d = 9 -> "9"

\* str(n) for n >= 0: the decimal digits of n.
RECURSIVE Str(_)
Str(n) == IF n < 10 THEN Digit(n) ELSE Str(n \div 10) \o Digit(n % 10)

\* Key without the + 1.
KeyMutant(person_idx) == Str(person_idx)

\* key = str(person_idx + 1)
Key(person_idx) == Str(person_idx + 1)

\* cv2.waitKey(1) & 0xFF == ord("q")
IsQuitKey(k) == (k % 256) = OrdQ

\* The JSON documents: a mapping from string keys to sequences of vectors.
EmptyDoc == [k \in {} |-> <<>>]

\* records.setdefault(key, []).append(emot_probs)
SetDefaultAppend(recs, key, v) ==
    IF key \in DOMAIN recs
    THEN [recs EXCEPT ![key] = Append(@, v)]
    ELSE recs @@ (key :> <<v>>)

\* The file at data_path: absent, present but not a JSON document (just
\* truncated by open(.., "w"), or holding text that does not parse), or
\* holding a JSON object.
AbsentFile == [exists |-> FALSE, valid |-> FALSE, doc |-> EmptyDoc]
TruncatedFile == [exists |-> TRUE, valid |-> FALSE, doc |-> EmptyDoc]
JsonFile(d) == [exists |-> TRUE, valid |-> TRUE, doc |-> d]

\* What data_path can hold when process_video is called: nothing, unparsable
\* text, an empty object, or the log of an earlier invocation.
PriorDoc == ("1" :> <<[happy |-> 25, sad |-> 75]>>)
InitialFiles == {AbsentFile, TruncatedFile, JsonFile(EmptyDoc), JsonFile(PriorDoc)}

NoExc == [type |-> "none", at |-> "none"]

VARIABLES
    pc,            \* position in process_video
    exc,           \* the uncaught exception, and the step that raised it
    videoExists,   \* Path(video_path).exists()
    canOpen,       \* whether the video backend can open the stream
    numFrames,     \* frames the stream holds
    cap,           \* "none" | "opened" | "closed" | "released"
    dirExists,     \* the log directory exists
    file,          \* the file at data_path
    pos,           \* frames read so far
    emots,         \* the current frame's detection mapping
    idx,           \* position of the for loop in emots.items() (1-based)
    records,       \* the document loaded by json.load
    graphs,        \* person indices whose plot was collected
    emot_graph,    \* "none" | "single" | "concat" | "placeholder"
    window,        \* the display window is open
    quit,          \* the key poll reported the quit key
    \* history (instrumentation, never read by the program)
    file0,         \* the file at data_path when process_video was called
    dir0,          \* whether the log directory existed at that time
    history,       \* detection mappings of the frames classified so far
    completed,     \* iterations that reached the end of the loop body
    lastDoc,       \* the last document that was on disk before a write began
    frameInits,    \* writes of an empty object during the current iteration
    frameRewrites, \* rewrites after an append during the current iteration
    shown          \* the current frame has been displayed

vars == <<pc, exc, videoExists, canOpen, numFrames, cap, dirExists, file, pos,
          emots, idx, records, graphs, emot_graph, window, quit, file0, dir0,
          history, completed, lastDoc, frameInits, frameRewrites, shown>>

progVars == <<videoExists, canOpen, numFrames, cap, dirExists, file, pos, emots,
              idx, records, graphs, emot_graph, window, quit>>
histVars == <<file0, dir0, history, completed, lastDoc, frameInits, frameRewrites, shown>>

Init ==
    /\ pc = "start"
    /\ exc = NoExc
    /\ videoExists \in BOOLEAN
    /\ canOpen \in BOOLEAN
    /\ (canOpen => videoExists)
    /\ numFrames \in 0..MaxFrames
    /\ cap = "none"
    /\ file \in InitialFiles
    /\ dirExists \in BOOLEAN
    /\ (file.exists => dirExists)
    /\ pos = 0
    /\ emots = <<>>
    /\ idx = 0
    /\ records = EmptyDoc
    /\ graphs = <<>>
    /\ emot_graph = "none"
    /\ window = FALSE
    /\ quit = FALSE
    /\ file0 = file
    /\ dir0 = dirExists
    /\ history = <<>>
    /\ completed = 0
    /\ lastDoc = file.doc
    /\ frameInits = 0
    /\ frameRewrites = 0
    /\ shown = FALSE

\* An exception of the given type leaves the current step; nothing catches it.
Raise(type) ==
    /\ pc' = "raised"
    /\ exc' = [type |-> type, at |-> pc]

\* CheckPath without the existence test.
CheckPathMutant ==
    /\ pc = "start"
    /\ pc' = "open"
    /\ UNCHANGED <<exc, progVars, histVars>>

\* lines 52-53
CheckPath ==
    /\ pc = "start"
    /\ IF videoExists
       THEN pc' = "open" /\ exc' = exc
       ELSE Raise("FileNotFoundError")
    /\ UNCHANGED <<progVars, histVars>>

\* lines 55-57
OpenCapture ==
    /\ pc = "open"
    /\ cap' = IF canOpen THEN "opened" ELSE "closed"
    /\ IF canOpen
       THEN pc' = "makedirs" /\ exc' = exc
       ELSE Raise("RuntimeError")
    /\ UNCHANGED <<videoExists, canOpen, numFrames, dirExists, file, pos, emots,
                   idx, records, graphs, emot_graph, window, quit, histVars>>

\* line 60
MakeDirs ==
    /\ pc = "makedirs"
    /\ dirExists' = TRUE
    /\ pc' = "loop"
    /\ UNCHANGED <<exc, videoExists, canOpen, numFrames, cap, file, pos, emots,
                   idx, records, graphs, emot_graph, window, quit, histVars>>

\* line 62
LoopTest ==
    /\ pc = "loop"
    /\ pc' = IF cap = "opened" THEN "read" ELSE "release"
    /\ UNCHANGED <<exc, progVars, histVars>>

\* Read that goes round the loop again when no frame remains.
ReadMutant ==
    /\ pc = "read"
    /\ IF pos < numFrames
       THEN /\ pos' = pos + 1
            /\ pc' = "drawBbox"
            /\ frameInits' = 0
            /\ frameRewrites' = 0
            /\ shown' = FALSE
       ELSE /\ pc' = "loop"
            /\ UNCHANGED <<pos, frameInits, frameRewrites, shown>>
    /\ UNCHANGED <<exc, videoExists, canOpen, numFrames, cap, dirExists, file,
                   emots, idx, records, graphs, emot_graph, window, quit, file0, dir0,
                   history, completed, lastDoc>>

\* lines 63-65: a frame is returned, or ret is False and the loop ends.
Read ==
    /\ pc = "read"
    /\ IF pos < numFrames
       THEN /\ pos' = pos + 1
            /\ pc' = "drawBbox"
            /\ frameInits' = 0
            /\ frameRewrites' = 0
            /\ shown' = FALSE
       ELSE /\ pc' = "release"
            /\ UNCHANGED <<pos, frameInits, frameRewrites, shown>>
    /\ UNCHANGED <<exc, videoExists, canOpen, numFrames, cap, dirExists, file,
                   emots, idx, records, graphs, emot_graph, window, quit, file0, dir0,
                   history, completed, lastDoc>>

\* line 63: the decoder raises on a frame it cannot decode.
ReadRaises ==
    /\ pc = "read"
    /\ pos < numFrames
    /\ Raise("cv2.error")
    /\ UNCHANGED <<progVars, histVars>>

\* line 68
DrawBbox ==
    /\ pc = "drawBbox"
    /\ \/ pc' = "labelEmotion" /\ exc' = exc
       \/ Raise("ModelError")
    /\ UNCHANGED <<progVars, histVars>>

\* lines 69-70
LabelEmotion ==
    /\ pc = "labelEmotion"
    /\ \/ \E d \in Detections :
            /\ emots' = d
            /\ history' = Append(history, d)
            /\ pc' = "branch"
            /\ exc' = exc
       \/ /\ Raise("ModelError")
          /\ UNCHANGED <<emots, history>>
    /\ UNCHANGED <<videoExists, canOpen, numFrames, cap, dirExists, file, pos,
                   idx, records, graphs, emot_graph, window, quit, file0, dir0,
                   completed, lastDoc, frameInits, frameRewrites, shown>>

\* Branch that displays the frame before the per-person loop.
BranchMutant ==
    /\ pc = "branch"
    /\ emots # <<>>
    /\ graphs' = <<>>
    /\ idx' = 1
    /\ window' = TRUE
    /\ shown' = TRUE
    /\ pc' = "visualize"
    /\ UNCHANGED <<exc, videoExists, canOpen, numFrames, cap, dirExists, file,
                   pos, emots, records, emot_graph, quit, file0, dir0, history,
                   completed, lastDoc, frameInits, frameRewrites>>

\* lines 72-75: a non-empty mapping starts the per-person loop.
Branch ==
    /\ pc = "branch"
    /\ emots # <<>>
    /\ graphs' = <<>>
    /\ idx' = 1
    /\ pc' = "visualize"
    /\ UNCHANGED <<exc, videoExists, canOpen, numFrames, cap, dirExists, file,
                   pos, emots, records, emot_graph, window, quit, histVars>>

\* Placeholder that also makes sure the log file exists.
PlaceholderMutant ==
    /\ pc = "branch"
    /\ emots = <<>>
    /\ emot_graph' = "placeholder"
    /\ file' = IF file.exists THEN file ELSE JsonFile(EmptyDoc)
    /\ pc' = "combine"
    /\ exc' = exc
    /\ UNCHANGED <<videoExists, canOpen, numFrames, cap, dirExists, pos,
                   emots, idx, records, graphs, window, quit, histVars>>

\* lines 109-114: no face, one placeholder plot, no logging.
Placeholder ==
    /\ pc = "branch"
    /\ emots = <<>>
    /\ \/ /\ emot_graph' = "placeholder"
          /\ pc' = "combine"
          /\ exc' = exc
       \/ /\ Raise("VisualizerError")
          /\ UNCHANGED emot_graph
    /\ UNCHANGED <<videoExists, canOpen, numFrames, cap, dirExists, file, pos,
                   emots, idx, records, graphs, window, quit, histVars>>

\* lines 76-87: plot of person idx-1, resized and collected.
Visualize ==
    /\ pc = "visualize"
    /\ \/ /\ graphs' = Append(graphs, idx - 1)
          /\ pc' = "exists"
          /\ exc' = exc
       \/ /\ Raise("VisualizerError")
          /\ UNCHANGED graphs
    /\ UNCHANGED <<videoExists, canOpen, numFrames, cap, dirExists, file, pos,
                   emots, idx, records, emot_graph, window, quit, histVars>>

\* ExistsCheck that initialises the file whether or not it exists.
ExistsCheckMutant ==
    /\ pc = "exists"
    /\ pc' = "init_open"
    /\ UNCHANGED <<exc, progVars, histVars>>

\* line 91
ExistsCheck ==
    /\ pc = "exists"
    /\ pc' = IF file.exists THEN "load" ELSE "init_open"
    /\ UNCHANGED <<exc, progVars, histVars>>

\* line 92: open(data_path, "w") creates the file, empty.
InitOpen ==
    /\ pc = "init_open"
    /\ file' = TruncatedFile
    /\ pc' = "init_dump"
    /\ UNCHANGED <<exc, videoExists, canOpen, numFrames, cap, dirExists, pos,
                   emots, idx, records, graphs, emot_graph, window, quit, histVars>>

\* line 93: json.dump({}, f) and the close of the with block.
InitDump ==
    /\ pc = "init_dump"
    /\ \/ /\ file' = JsonFile(EmptyDoc)
          /\ frameInits' = frameInits + 1
          /\ pc' = "load"
          /\ exc' = exc
       \/ /\ Raise("OSError")
          /\ UNCHANGED <<file, frameInits>>
    /\ UNCHANGED <<videoExists, canOpen, numFrames, cap, dirExists, pos, emots,
                   idx, records, graphs, emot_graph, window, quit, file0, dir0,
                   history, completed, lastDoc, frameRewrites, shown>>

\* lines 95-96: json.load raises on text that is not a JSON document.
Load ==
    /\ pc = "load"
    /\ IF file.valid
       THEN /\ records' = file.doc
            /\ pc' = "append"
            /\ exc' = exc
       ELSE /\ Raise("JSONDecodeError")
            /\ UNCHANGED records
    /\ UNCHANGED <<videoExists, canOpen, numFrames, cap, dirExists, file, pos,
                   emots, idx, graphs, emot_graph, window, quit, histVars>>

\* AppendRecord that overwrites the person's sequence.
AppendRecordMutant ==
    /\ pc = "append"
    /\ records' = (Key(idx - 1) :> <<emots[idx]>>) @@ records
    /\ pc' = "open_w"
    /\ UNCHANGED <<exc, videoExists, canOpen, numFrames, cap, dirExists, file,
                   pos, emots, idx, graphs, emot_graph, window, quit, histVars>>

\* lines 98-99
AppendRecord ==
    /\ pc = "append"
    /\ records' = SetDefaultAppend(records, Key(idx - 1), emots[idx])
    /\ pc' = "open_w"
    /\ UNCHANGED <<exc, videoExists, canOpen, numFrames, cap, dirExists, file,
                   pos, emots, idx, graphs, emot_graph, window, quit, histVars>>

\* line 101: open(data_path, "w") truncates the document.
OpenWrite ==
    /\ pc = "open_w"
    /\ lastDoc' = IF file.valid THEN file.doc ELSE lastDoc
    /\ file' = TruncatedFile
    /\ pc' = "dump"
    /\ UNCHANGED <<exc, videoExists, canOpen, numFrames, cap, dirExists, pos,
                   emots, idx, records, graphs, emot_graph, window, quit, file0, dir0,
                   history, completed, frameInits, frameRewrites, shown>>

\* Dump that goes on without having written the document.
DumpMutant ==
    /\ pc = "dump"
    /\ file' = file
    /\ frameRewrites' = frameRewrites + 1
    /\ idx' = idx + 1
    /\ pc' = IF idx < Len(emots) THEN "visualize" ELSE "collect"
    /\ exc' = exc
    /\ UNCHANGED <<videoExists, canOpen, numFrames, cap, dirExists, pos, emots,
                   records, graphs, emot_graph, window, quit, file0, dir0, history,
                   completed, lastDoc, frameInits, shown>>

\* line 102 and the for statement of line 75: json.dump(records, f), the close
\* of the with block, then the next person or the end of the for loop.
Dump ==
    /\ pc = "dump"
    /\ \/ /\ file' = JsonFile(records)
          /\ frameRewrites' = frameRewrites + 1
          /\ idx' = idx + 1
          /\ pc' = IF idx < Len(emots) THEN "visualize" ELSE "collect"
          /\ exc' = exc
       \/ /\ Raise("OSError")
          /\ UNCHANGED <<file, frameRewrites, idx>>
    /\ UNCHANGED <<videoExists, canOpen, numFrames, cap, dirExists, pos, emots,
                   records, graphs, emot_graph, window, quit, file0, dir0, history,
                   completed, lastDoc, frameInits, shown>>

\* lines 106-108: custom_concat for more than one plot, else the single plot.
Collect ==
    /\ pc = "collect"
    /\ \/ /\ emot_graph' = IF Len(emots) > 1 THEN "concat" ELSE "single"
          /\ pc' = "combine"
          /\ exc' = exc
       \/ /\ Len(emots) > 1
          /\ Raise("ComposerError")
          /\ UNCHANGED emot_graph
    /\ UNCHANGED <<videoExists, canOpen, numFrames, cap, dirExists, file, pos,
                   emots, idx, records, graphs, window, quit, histVars>>

\* lines 117-119: resize, concatenate with the frame, resize.
Combine ==
    /\ pc = "combine"
    /\ \/ pc' = "imshow" /\ exc' = exc
       \/ Raise("ComposerError")
    /\ UNCHANGED <<progVars, histVars>>

\* line 122
Imshow ==
    /\ pc = "imshow"
    /\ window' = TRUE
    /\ shown' = TRUE
    /\ pc' = "waitKey"
    /\ UNCHANGED <<exc, videoExists, canOpen, numFrames, cap, dirExists, file,
                   pos, emots, idx, records, graphs, emot_graph, quit, file0, dir0,
                   history, completed, lastDoc, frameInits, frameRewrites>>

\* WaitKey that notes the quit key but does not break.
WaitKeyMutant ==
    /\ pc = "waitKey"
    /\ \E k \in KeyCodes :
          /\ quit' = IsQuitKey(k)
          /\ pc' = "loop"
    /\ completed' = completed + 1
    /\ UNCHANGED <<exc, videoExists, canOpen, numFrames, cap, dirExists, file,
                   pos, emots, idx, records, graphs, emot_graph, window, file0, dir0,
                   history, lastDoc, frameInits, frameRewrites, shown>>

\* lines 125-126: the key poll that ends the iteration.
WaitKey ==
    /\ pc = "waitKey"
    /\ \E k \in KeyCodes :
          /\ quit' = IsQuitKey(k)
          /\ pc' = IF IsQuitKey(k) THEN "release" ELSE "loop"
    /\ completed' = completed + 1
    /\ UNCHANGED <<exc, videoExists, canOpen, numFrames, cap, dirExists, file,
                   pos, emots, idx, records, graphs, emot_graph, window, file0, dir0,
                   history, lastDoc, frameInits, frameRewrites, shown>>

\* line 131
Release ==
    /\ pc = "release"
    /\ cap' = "released"
    /\ pc' = "destroy"
    /\ UNCHANGED <<exc, videoExists, canOpen, numFrames, dirExists, file, pos,
                   emots, idx, records, graphs, emot_graph, window, quit, histVars>>

\* line 132
DestroyAllWindows ==
    /\ pc = "destroy"
    /\ window' = FALSE
    /\ pc' = "done"
    /\ UNCHANGED <<exc, videoExists, canOpen, numFrames, cap, dirExists, file,
                   pos, emots, idx, records, graphs, emot_graph, quit, histVars>>

Next ==
    \/ CheckPath
    \/ OpenCapture
    \/ MakeDirs
    \/ LoopTest
    \/ Read
    \/ ReadRaises
    \/ DrawBbox
    \/ LabelEmotion
    \/ Branch
    \/ Placeholder
    \/ Visualize
    \/ ExistsCheck
    \/ InitOpen
    \/ InitDump
    \/ Load
    \/ AppendRecord
    \/ OpenWrite
    \/ Dump
    \/ Collect
    \/ Combine
    \/ Imshow
    \/ WaitKey
    \/ Release
    \/ DestroyAllWindows

Spec == Init /\ [][Next]_vars

\* The script is one sequential thread: a step that can be taken is taken.
FairSpec == Spec /\ WF_vars(Next)

\* ----------------------------------------------------- property vocabulary
IsPrefix(s, t) == Len(s) <= Len(t) /\ SubSeq(t, 1, Len(s)) = s

\* The sequence a document holds under a key (empty when the key is absent).
DocUnder(d, k) == IF k \in DOMAIN d THEN d[k] ELSE <<>>

\* The sequence the file holds under a key (empty when there is no document).
Logged(f, k) == IF f.valid THEN DocUnder(f.doc, k) ELSE <<>>

\* The vectors of person i in the frames of hist, in frame order.
RECURSIVE PersonVectors(_, _)
PersonVectors(i, hist) ==
    IF hist = <<>> THEN <<>>
    ELSE IF Len(Head(hist)) > i
         THEN <<Head(hist)[i + 1]>> \o PersonVectors(i, Tail(hist))
         ELSE PersonVectors(i, Tail(hist))

NoFaceSoFar(hist) == \A n \in 1..Len(hist) : hist[n] = <<>>

Persons == 0..(MaxPersons - 1)

\* The log key of person i as the log format states it: the decimal numeral
\* of i + 1 ("1", "2", ...).
PersonKey(i) == <<"1", "2", "3", "4", "5", "6", "7", "8", "9", "10">>[i + 1]

\* C1: after every completed iteration the file holds, under str(i+1), what
\* it held at the start followed by the vectors of person i of all frames
\* processed so far, in frame order, and no other key was added.
LogReflectsProcessedFrames ==
    completed = Len(history) =>
        /\ \A i \in Persons :
              Logged(file, PersonKey(i)) = Logged(file0, PersonKey(i)) \o PersonVectors(i, history)
        /\ (~NoFaceSoFar(history) => file.valid)
        /\ (file.valid =>
              DOMAIN file.doc = DOMAIN file0.doc \cup
                  {PersonKey(i) : i \in {j \in Persons : PersonVectors(j, history) # <<>>}})

LogReflectsProcessedFramesWitness ==
    /\ completed = 2
    /\ Len(history) = 2
    /\ Len(history[1]) = 2
    /\ Len(history[2]) = 1
    /\ history[1][1] # history[2][1]
    /\ file0 = JsonFile(PriorDoc)
    /\ file.valid
    /\ Len(DocUnder(file.doc, "1")) = 3
    /\ Len(DocUnder(file.doc, "2")) = 1

\* C2: a log update (the rewrite that follows an append) keeps every key of
\* the document it replaces and of the document found at the start, keeps
\* each of their sequences as a prefix, and adds exactly the new vector at
\* the end of the person's sequence.
AppendOnly ==
    [][(pc = "dump" /\ pc' # "raised") =>
          /\ file'.valid
          /\ \A k \in DOMAIN lastDoc :
                k \in DOMAIN file'.doc /\ IsPrefix(lastDoc[k], file'.doc[k])
          /\ \A k \in DOMAIN file0.doc :
                k \in DOMAIN file'.doc /\ IsPrefix(file0.doc[k], file'.doc[k])
          /\ \A k \in DOMAIN file'.doc :
                k # PersonKey(idx - 1) => k \in DOMAIN lastDoc /\ file'.doc[k] = lastDoc[k]
          /\ DocUnder(file'.doc, PersonKey(idx - 1))
                = Append(DocUnder(lastDoc, PersonKey(idx - 1)), emots[idx])]_vars

AppendOnlyWitness ==
    /\ ~file0.exists
    /\ file.valid
    /\ Len(history) = 2
    /\ Len(DocUnder(file.doc, "1")) = 2
    /\ file.doc["1"] = <<history[1][1], history[2][1]>>
    /\ history[1][1] # history[2][1]

\* C3: while no frame has had a face, the file at data_path is what it was
\* when process_video was called (absent stays absent).
NoFaceNoWrite ==
    NoFaceSoFar(history) => file = file0 /\ frameInits = 0 /\ frameRewrites = 0

NoFaceNoWriteWitness ==
    /\ pc = "done"
    /\ Len(history) >= 2
    /\ NoFaceSoFar(history)
    /\ ~file0.exists
    /\ ~file.exists

\* C4: when process_video has exited after the video handle was created,
\* the handle has been released and the window destroyed.
ReleasedOnEveryExit ==
    (pc \in {"done", "raised"} /\ cap # "none") => (cap = "released" /\ ~window)

\* C5: with a missing video file the function raises FileNotFoundError at
\* its first statement: no frame read, no handle, no directory, no file
\* write, no window.
MissingVideoFailsFirst ==
    ~videoExists =>
        /\ pc \in {"start", "raised"}
        /\ (pc = "raised" => exc = [type |-> "FileNotFoundError", at |-> "start"])
        /\ pos = 0
        /\ history = <<>>
        /\ cap = "none"
        /\ dirExists = dir0
        /\ file = file0
        /\ ~window

MissingVideoFailsFirstWitness ==
    /\ ~videoExists
    /\ pc = "raised"
    /\ ~dirExists
    /\ ~file.exists

\* The iteration is past its per-person loop.
AfterPersonLoop == pc \in {"collect", "combine", "imshow", "waitKey"}

\* C6, as claimed: one revision per face-containing frame whatever the
\* number of persons (counting only the rewrites that follow an append, not
\* the initial empty object).
OneRevisionPerFaceFrame ==
    (AfterPersonLoop /\ emots # <<>>) => frameRewrites = 1

\* C6, amended: a frame with N persons is followed by exactly N rewrites,
\* one per person, plus one write of the empty object when the file did not
\* exist; a frame without a face by no write at all.
OneRevisionPerPerson ==
    AfterPersonLoop =>
        /\ frameRewrites = Len(emots)
        /\ frameInits =
              IF emots # <<>> /\ ~file0.exists
                 /\ NoFaceSoFar(SubSeq(history, 1, Len(history) - 1))
              THEN 1 ELSE 0

OneRevisionPerPersonWitness ==
    /\ pc = "collect"
    /\ Len(emots) = 2
    /\ frameRewrites = 2
    /\ frameInits = 1

\* C7: the quit key is seen only by the key poll, after the iteration's
\* logging and display; once it is seen nothing more is read, logged or
\* displayed and the function goes on to release and exit.
CooperativeQuit ==
    [][/\ (quit' /\ ~quit) =>
             /\ pc = "waitKey"
             /\ shown
             /\ frameRewrites = Len(emots)
             /\ pc' = "release"
       /\ quit =>
             /\ pc' \in {"release", "destroy", "done"}
             /\ UNCHANGED <<pos, history, file, shown, frameRewrites, exc>>]_vars

CooperativeQuitWitness ==
    /\ quit
    /\ pc = "done"
    /\ pos < numFrames
    /\ frameRewrites = 1
    /\ file.valid

\* C8: the run ends; at a normal end every frame read was processed to the
\* end of its iteration, all frames were read unless the quit key was seen,
\* and the read that finds no frame changes nothing but the position in the
\* code.
Terminates ==
    /\ <>(pc \in {"done", "raised"})
    /\ [](pc = "done" =>
             /\ exc = NoExc
             /\ completed = pos
             /\ Len(history) = pos
             /\ pos <= numFrames
             /\ (~quit => pos = numFrames))
    /\ [][(pc = "read" /\ pos >= numFrames) =>
             /\ pc' = "release"
             /\ UNCHANGED <<exc, progVars, histVars>>]_vars

TerminatesWitness ==
    /\ pc = "done"
    /\ ~quit
    /\ numFrames >= 2
    /\ pos = numFrames
    /\ completed = numFrames

\* C9, as claimed: a frame's vectors are written to the log only after the
\* frame has been displayed.
DisplayBeforeLog ==
    frameRewrites > 0 => shown

\* C9, amended: a frame's vectors are all written to the log before the
\* frame is displayed, and the next frame is read only after both.
LogBeforeDisplay ==
    [][/\ (frameRewrites' > frameRewrites) => ~shown
       /\ (shown' /\ ~shown) => (pc = "imshow" /\ frameRewrites = Len(emots))
       /\ (pos' # pos) => (pos = 0 \/ (shown /\ frameRewrites = Len(emots)))]_vars

LogBeforeDisplayWitness ==
    /\ shown
    /\ pos = 2
    /\ frameRewrites = 2
    /\ pc = "waitKey"

\* A write of the file is under way, or was cut short by an error.
MidWrite ==
    \/ pc \in {"init_dump", "dump"}
    \/ (pc = "raised" /\ exc.at \in {"init_dump", "dump"})

\* C10: started on an absent file or a JSON document, the file is a JSON
\* document whenever it exists and no write is under way.
ValidAfterWrite ==
    ((~file0.exists \/ file0.valid) /\ ~MidWrite) => (file.exists => file.valid)

ValidAfterWriteWitness ==
    /\ ~file0.exists
    /\ pc = "done"
    /\ file.valid
    /\ file.doc # EmptyDoc
    /\ frameInits = 0

====
